---- MODULE Spec2Model ----
(***************************************************************************)
(* TimeTable Pro: the generation entry point (generateTimetable and        *)
(* generateTimetableFlow, src/unnamed/part_001), the form                  *)
(* (src/unnamed/part_000) and the page (src/page.tsx).                     *)
(*                                                                         *)
(* The timetable itself is produced by a language model called through     *)
(* `prompt(input)`: the model's answer is an input of the state machine,   *)
(* drawn from a bounded set of answers.  What the flow does with the       *)
(* answer is translated from the code.                                     *)
(***************************************************************************)
EXTENDS Integers, Sequences, FiniteSets, TLC

\* ------------------------------------------------------------------ bounds
\* Engine specification: largest schedule (rows) / days (columns) the model
\* answers with, and the longest subjects / teachersPerSubject list.
MaxRows == 2
MaxCols == 1
MaxSubjects == 1
\* Whole-application and two-invocation specifications: largest number of
\* rows and of columns the model answers with, and the number of
\* comma-separated fields typed in the subjects / teachers text boxes.
SmallDim == 0
MaxTokens == 1

\* --------------------------------------------------------- program constants
FormMaxWorkingDays == 7
FormMaxClassesPerDay == 12

\* ------------------------------------------------------------------ values
SeqsUpTo(S, n) == UNION {[1..k -> S] : k \in 0..n}

SeqsFromTo(S, m, n) == UNION {[1..k -> S] : k \in m..n}

\* z.string().nullable(): a cell is a string or null.
NullCell == "null"

BreakLabel == "Lunch"

ClassCells == {"Math - T1"}

Cells == {NullCell, BreakLabel} \cup ClassCells

\* The subject a class cell "<Subject> - <Teacher>" names.
CellSubject(c) == IF c = "Math - T1" THEN "Math" ELSE ""

CellTeacher(c) == IF c = "Math - T1" THEN "T1" ELSE ""

SubjectNames == {"Math"}

DayNames == <<"Monday", "Tuesday", "Wednesday", "Thursday", "Friday", "Saturday", "Sunday">>

PeriodLabels == {"Period 1", BreakLabel}

\* A schedule row as the model answers it: an array of cells, or something
\* that is not an array (Array.isArray(row) is false).
ArrayRow(cells) == [isArray |-> TRUE, cells |-> cells]

NotArrayRow == [isArray |-> FALSE, cells |-> <<>>]

Fields == {"days", "periods", "schedule"}

\* The model's answer: null, or an object that has some of the three fields.
NullOutput == [isNull |-> TRUE, has |-> {}, days |-> <<>>, periods |-> <<>>, schedule |-> <<>>]

Timetable(days, periods, schedule) ==
    [isNull |-> FALSE, has |-> Fields, days |-> days, periods |-> periods, schedule |-> schedule]

\* The object with field f deleted.
Without(o, f) == [o EXCEPT !.has = @ \ {f}, ![f] = <<>>]

WellTypedOutputs(maxRows, maxCols) ==
    {Timetable(SubSeq(DayNames, 1, d), p, s) :
        d \in 0..maxCols,
        p \in SeqsUpTo(PeriodLabels, maxRows),
        s \in SeqsUpTo({ArrayRow(c) : c \in SeqsUpTo(Cells, maxCols)}, maxRows)}

\* Answers that do not fit GenerateTimetableOutputSchema: null, a field
\* missing, a row that is not an array.
MalformedOutputs ==
    {NullOutput}
    \cup {Without(Timetable(<<>>, <<>>, <<>>), f) : f \in Fields}
    \cup {Timetable(<<>>, <<"Period 1">>, <<NotArrayRow>>)}

ModelOutputs(maxRows, maxCols) == WellTypedOutputs(maxRows, maxCols) \cup MalformedOutputs

EngineOutputs == ModelOutputs(MaxRows, MaxCols)

SmallOutputs == ModelOutputs(SmallDim, SmallDim)

\* otherConstraints is free text; the model keeps the one request the
\* claims are about (a break at a 0-based period index) or none.
NoConstraints == [kind |-> "none", periodIndex |-> 0, label |-> ""]

FixedBreak(k, l) == [kind |-> "break", periodIndex |-> k, label |-> l]

ConstraintVals == {NoConstraints, FixedBreak(1, BreakLabel)}

WorkingDaysVals == {0, 1, FormMaxWorkingDays + 1}

ClassesPerDayVals == {0, 1, FormMaxClassesPerDay + 1}

TeacherCounts == {-1, 0, 1}

\* GenerateTimetableInput values (integers only).
EntryInputs ==
    [workingDays : WorkingDaysVals,
     classesPerDay : ClassesPerDayVals,
     subjects : SeqsUpTo(SubjectNames, MaxSubjects),
     teachersPerSubject : SeqsUpTo(TeacherCounts, MaxSubjects),
     otherConstraints : ConstraintVals]

\* The engine specification also calls with two working days, a week in
\* which one subject is due more than one class.
EngineInputs ==
    [workingDays : WorkingDaysVals \cup {2},
     classesPerDay : ClassesPerDayVals,
     subjects : SeqsUpTo(SubjectNames, MaxSubjects),
     teachersPerSubject : SeqsUpTo(TeacherCounts, MaxSubjects),
     otherConstraints : ConstraintVals]

NoInput ==
    [workingDays |-> 0, classesPerDay |-> 0, subjects |-> <<>>,
     teachersPerSubject |-> <<>>, otherConstraints |-> NoConstraints]

\* ------------------------------------------------------------------ results
NoError == [msg |-> "", a |-> 0, b |-> 0]

Err(msg, a, b) == [msg |-> msg, a |-> a, b |-> b]

NoResult == [kind |-> "none", output |-> NullOutput, error |-> NoError]

Returned(o) == [kind |-> "returned", output |-> o, error |-> NoError]

Threw(e) == [kind |-> "threw", output |-> NullOutput, error |-> e]

MismatchMsg == "Mismatch between the number of subjects and teacher counts."

SchemaMsg == "INVALID_ARGUMENT: Schema validation failed."

AiFailedMsg == "AI failed to generate timetable data."

MissingMsg == "AI output error: Missing days, periods, or schedule in the output."

RowsMsg == "AI output error: Schedule rows do not match number of periods."

ColsMsg == "AI output error: At least one schedule row's column count does not match number of days."

RowNotArrayMsg == "AI output error: Schedule row is not an array."

RowColsMsg == "AI output error: Schedule row has wrong number of columns."

PromptFailedMsg == "prompt rejected"

\* ------------------------------------------------------------------ state
VARIABLES
    pc,            \* "idle" | "awaitAction" | "awaitPrompt" | "settled" | "actionReturned"
    caller,        \* who started the request: "none" | "entry" (a direct call of
                   \* generateTimetable) | "form" | "handler" (the page, through the action)
    input,         \* the GenerateTimetableInput of the invocation in progress
    genResult,     \* how generateTimetable settled: returned(output) or threw(error)
    actionResult,  \* what generateTimetableAction handed to the page
    isLoading,     \* page state (React.useState)
    timetableData, \* page state: NullOutput stands for null
    toast,         \* the toast the current or last handleGenerateTimetable raised
    formErrors,    \* fields the form resolver flagged on the last submit
    pending,       \* invocations of handleGenerateTimetable awaiting the action
    prev           \* two-invocation specification: the first invocation's input,
                   \* model answer and result, and the current model answer

vars == <<pc, caller, input, genResult, actionResult, isLoading, timetableData,
          toast, formErrors, pending, prev>>

engineVars == <<pc, caller, input, genResult>>

pageVars == <<actionResult, isLoading, timetableData, toast, formErrors, pending>>

NoToast == [title |-> "", description |-> ""]

NoActionResult == [kind |-> "none", data |-> NullOutput, error |-> ""]

NoAnswer == [kind |-> "none", output |-> NullOutput]

NoPrev ==
    [set |-> FALSE, input |-> NoInput, answer |-> NoAnswer, result |-> NoResult,
     current |-> NoAnswer]

Init ==
    /\ pc = "idle"
    /\ caller = "none"
    /\ input = NoInput
    /\ genResult = NoResult
    /\ actionResult = NoActionResult
    /\ isLoading = FALSE
    /\ timetableData = NullOutput
    /\ toast = NoToast
    /\ formErrors = {}
    /\ pending = 0
    /\ prev = NoPrev

\* ------------------------------------------------- generateTimetable (engine)
\* InputSchemaOK with .nonnegative() in place of .positive().
InputSchemaNonNegative(i) ==
    /\ i.workingDays >= 0
    /\ i.classesPerDay >= 0
    /\ Len(i.subjects) >= 1
    /\ \A k \in 1..Len(i.teachersPerSubject) : i.teachersPerSubject[k] >= 0

\* GenerateTimetableInputSchema: positive integers, at least one subject,
\* non-negative teacher counts.  No upper limits, no length relation.
InputSchemaOK(i) ==
    /\ i.workingDays > 0
    /\ i.classesPerDay > 0
    /\ Len(i.subjects) >= 1
    /\ \A k \in 1..Len(i.teachersPerSubject) : i.teachersPerSubject[k] >= 0

\* LengthMismatch with > in place of !==.
LengthMismatchMoreSubjects(i) == Len(i.subjects) > Len(i.teachersPerSubject)

LengthMismatch(i) == Len(i.subjects) # Len(i.teachersPerSubject)

\* generateTimetable up to the await of the prompt: the length check, then
\* the flow's inputSchema.  NoResult: the prompt has been called.
GenerateSync(i) ==
    IF LengthMismatch(i) THEN Threw(Err(MismatchMsg, Len(i.subjects), Len(i.teachersPerSubject)))
    ELSE IF ~InputSchemaOK(i) THEN Threw(Err(SchemaMsg, 0, 0))
    ELSE NoResult

InvalidRow(o, r) == ~r.isArray \/ Len(r.cells) # Len(o.days)

\* output.schedule.find(row => ...): the first invalid row.
FirstInvalidRow(o) ==
    LET k == CHOOSE k \in 1..Len(o.schedule) :
                 /\ InvalidRow(o, o.schedule[k])
                 /\ \A j \in 1..(k - 1) : ~InvalidRow(o, o.schedule[j])
    IN  o.schedule[k]

\* The for loop over the rows: the error of the first row it rejects.
RECURSIVE RowLoop(_, _)
RowLoop(o, i) ==
    IF i > Len(o.schedule) THEN NoError
    ELSE IF ~o.schedule[i].isArray THEN Err(RowNotArrayMsg, i - 1, 0)
    ELSE IF Len(o.schedule[i].cells) # Len(o.days)
         THEN Err(RowColsMsg, Len(o.schedule[i].cells), Len(o.days))
    ELSE RowLoop(o, i + 1)

\* FlowBody without the comparison of schedule.length and periods.length.
FlowBodyNoRowCheck(o) ==
    IF o.isNull THEN Threw(Err(AiFailedMsg, 0, 0))
    ELSE IF o.has # Fields THEN Threw(Err(MissingMsg, 0, 0))
    ELSE IF Len(o.schedule) > 0 /\ \E k \in 1..Len(o.schedule) : InvalidRow(o, o.schedule[k])
         THEN LET r == FirstInvalidRow(o)
              IN  Threw(Err(ColsMsg, IF r.isArray THEN Len(r.cells) ELSE -1, Len(o.days)))
    ELSE IF RowLoop(o, 1) # NoError THEN Threw(RowLoop(o, 1))
    ELSE Returned(o)

\* FlowBody behind a guard that the first invocation leaves set.
FlowBodyOnce(o) ==
    IF prev.set THEN Threw(Err(AiFailedMsg, 0, 0))
    ELSE IF o.isNull THEN Threw(Err(AiFailedMsg, 0, 0))
    ELSE IF o.has # Fields THEN Threw(Err(MissingMsg, 0, 0))
    ELSE IF Len(o.schedule) # Len(o.periods)
         THEN Threw(Err(RowsMsg, Len(o.schedule), Len(o.periods)))
    ELSE IF Len(o.schedule) > 0 /\ \E k \in 1..Len(o.schedule) : InvalidRow(o, o.schedule[k])
         THEN LET r == FirstInvalidRow(o)
              IN  Threw(Err(ColsMsg, IF r.isArray THEN Len(r.cells) ELSE -1, Len(o.days)))
    ELSE IF RowLoop(o, 1) # NoError THEN Threw(RowLoop(o, 1))
    ELSE Returned(o)

\* The body of generateTimetableFlow after `await prompt(input)` resolved
\* with `output`.
FlowBody(o) ==
    IF o.isNull THEN Threw(Err(AiFailedMsg, 0, 0))
    ELSE IF o.has # Fields THEN Threw(Err(MissingMsg, 0, 0))
    ELSE IF Len(o.schedule) # Len(o.periods)
         THEN Threw(Err(RowsMsg, Len(o.schedule), Len(o.periods)))
    ELSE IF Len(o.schedule) > 0 /\ \E k \in 1..Len(o.schedule) : InvalidRow(o, o.schedule[k])
         THEN LET r == FirstInvalidRow(o)
              IN  Threw(Err(ColsMsg, IF r.isArray THEN Len(r.cells) ELSE -1, Len(o.days)))
    ELSE IF RowLoop(o, 1) # NoError THEN Threw(RowLoop(o, 1))
    ELSE Returned(o)

\* A caller other than the page invokes generateTimetable(i).
GenerateTimetable(i) ==
    /\ pc = "idle"
    /\ caller' = "entry"
    /\ input' = i
    /\ genResult' = GenerateSync(i)
    /\ pc' = IF GenerateSync(i) = NoResult THEN "awaitPrompt" ELSE "settled"
    /\ UNCHANGED <<pageVars, prev>>

\* `await prompt(input)` resolves with the model's answer o; the flow body
\* runs to its return or throw.
PromptResolves(o) ==
    /\ pc = "awaitPrompt"
    /\ genResult' = FlowBody(o)
    /\ pc' = "settled"
    /\ UNCHANGED <<caller, input, pageVars, prev>>

\* `await prompt(input)` rejects (the model call fails).
PromptRejects ==
    /\ pc = "awaitPrompt"
    /\ genResult' = Threw(Err(PromptFailedMsg, 0, 0))
    /\ pc' = "settled"
    /\ UNCHANGED <<caller, input, pageVars, prev>>

\* The caller's await of generateTimetable(i) completes.
EntrySettles ==
    /\ pc = "settled"
    /\ caller = "entry"
    /\ pc' = "idle"
    /\ caller' = "none"
    /\ input' = NoInput
    /\ genResult' = NoResult
    /\ UNCHANGED <<pageVars, prev>>

EngineNext ==
    \/ pc = "idle" /\ \E i \in EngineInputs : GenerateTimetable(i)
    \/ pc = "awaitPrompt" /\ \E o \in EngineOutputs : PromptResolves(o)
    \/ PromptRejects
    \/ EntrySettles

\* The generation entry point on its own, with the larger answers.
SpecEngine == Init /\ [][EngineNext]_vars

\* ------------------------------------------------------ the form (formSchema)
\* A text box holds comma-separated fields; the model keeps the fields
\* (value.split(',')), each one of a few strings.
SubjectTokens == {"", " ", "Math"}

TeacherTokens == {"", "0", "1", "-1"}

StrLen(t) ==
    CASE t = "" -> 0
      [] t = " " -> 1
      [] t = "0" -> 1
      [] t = "1" -> 1
      [] t = "-1" -> 2
      [] t = "Math" -> 4

\* String.prototype.trim on the strings above.
Trim(t) == IF t = " " THEN "" ELSE t

\* parseInt(t, 10) is NaN on the empty string.
IsNaN(t) == t \notin {"0", "1", "-1"}

ParseInt(t) ==
    CASE t = "1" -> 1
      [] t = "-1" -> -1
      [] OTHER -> 0

RECURSIVE SumLen(_)
SumLen(ts) == IF ts = <<>> THEN 0 ELSE StrLen(Head(ts)) + SumLen(Tail(ts))

\* Length of the text the fields were split from (fields joined by commas).
RawLen(ts) == SumLen(ts) + (Len(ts) - 1)

NonEmptyTrimmed(t) == Trim(t) # ""

ValidCount(t) == ~IsNaN(Trim(t)) /\ ParseInt(Trim(t)) >= 0

\* .filter(s => s) on trimmed fields.
RECURSIVE FilterNonEmpty(_)
FilterNonEmpty(ts) ==
    IF ts = <<>> THEN <<>>
    ELSE IF NonEmptyTrimmed(Head(ts)) THEN <<Head(ts)>> \o FilterNonEmpty(Tail(ts))
    ELSE FilterNonEmpty(Tail(ts))

\* .filter(n => !isNaN(n) && n >= 0) on parsed fields.
RECURSIVE FilterValidCounts(_)
FilterValidCounts(ts) ==
    IF ts = <<>> THEN <<>>
    ELSE IF ValidCount(Head(ts)) THEN <<Head(ts)>> \o FilterValidCounts(Tail(ts))
    ELSE FilterValidCounts(Tail(ts))

FormValues ==
    [workingDays : WorkingDaysVals,
     classesPerDay : ClassesPerDayVals,
     subjects : SeqsFromTo(SubjectTokens, 1, MaxTokens),
     teachersPerSubject : SeqsFromTo(TeacherTokens, 1, MaxTokens),
     otherConstraints : ConstraintVals]

WorkingDaysFieldOK(n) == n > 0 /\ n >= 1 /\ n <= FormMaxWorkingDays

ClassesPerDayFieldOK(n) == n > 0 /\ n >= 1 /\ n <= FormMaxClassesPerDay

SubjectsFieldOK(ts) ==
    /\ RawLen(ts) >= 1
    /\ \A k \in 1..Len(ts) : StrLen(Trim(ts[k])) > 0

TeachersFieldOK(ts) ==
    /\ RawLen(ts) >= 1
    /\ \A k \in 1..Len(ts) : ~IsNaN(Trim(ts[k])) /\ ParseInt(Trim(ts[k])) >= 0
    /\ \A k \in 1..Len(ts) : ParseInt(Trim(ts[k])) >= 0

\* The object-level refine: as many subjects as teacher counts.
CountsMatch(v) ==
    Len(FilterNonEmpty(v.subjects)) = Len(FilterNonEmpty(v.teachersPerSubject))

\* The fields zodResolver(formSchema) reports an error on.
FormErrors(v) ==
    (IF WorkingDaysFieldOK(v.workingDays) THEN {} ELSE {"workingDays"})
    \cup (IF ClassesPerDayFieldOK(v.classesPerDay) THEN {} ELSE {"classesPerDay"})
    \cup (IF SubjectsFieldOK(v.subjects) THEN {} ELSE {"subjects"})
    \cup (IF TeachersFieldOK(v.teachersPerSubject) /\ CountsMatch(v)
          THEN {} ELSE {"teachersPerSubject"})

\* ------------------------------------------------------------- the page
Toast(t, d) == [title |-> t, description |-> d]

InputErrorToast ==
    Toast("Input Error", "The number of subjects must match the number of teacher counts provided.")

InvalidStructureMsg == "Received invalid timetable data structure from the AI."

RECURSIVE MapTrim(_)
MapTrim(ts) == IF ts = <<>> THEN <<>> ELSE <<Trim(Head(ts))>> \o MapTrim(Tail(ts))

RECURSIVE MapParseInt(_)
MapParseInt(ts) == IF ts = <<>> THEN <<>> ELSE <<ParseInt(Head(ts))>> \o MapParseInt(Tail(ts))

\* The `input` handleGenerateTimetable prepares from the form values.
PrepareInput(v) ==
    [workingDays |-> v.workingDays,
     classesPerDay |-> v.classesPerDay,
     subjects |-> FilterNonEmpty(MapTrim(v.subjects)),
     teachersPerSubject |-> MapParseInt(FilterValidCounts(MapTrim(v.teachersPerSubject))),
     otherConstraints |-> v.otherConstraints]

\* HandlerStart without setTimetableData(null).
HandlerStartNoClear(v, who) ==
    IF LengthMismatch(PrepareInput(v))
    THEN /\ toast' = InputErrorToast
         /\ isLoading' = FALSE
         /\ UNCHANGED <<pc, caller, input, genResult, actionResult, timetableData, pending, prev>>
    ELSE /\ isLoading' = TRUE
         /\ input' = PrepareInput(v)
         /\ caller' = who
         /\ pc' = "awaitAction"
         /\ toast' = NoToast
         /\ pending' = pending + 1
         /\ UNCHANGED <<genResult, actionResult, timetableData, prev>>

\* handleGenerateTimetable from its first line to the await of the action,
\* or to the early return of the consistency check.
HandlerStart(v, who) ==
    IF LengthMismatch(PrepareInput(v))
    THEN /\ toast' = InputErrorToast
         /\ isLoading' = FALSE
         /\ timetableData' = NullOutput
         /\ UNCHANGED <<pc, caller, input, genResult, actionResult, pending, prev>>
    ELSE /\ isLoading' = TRUE
         /\ timetableData' = NullOutput
         /\ input' = PrepareInput(v)
         /\ caller' = who
         /\ pc' = "awaitAction"
         /\ toast' = NoToast
         /\ pending' = pending + 1
         /\ UNCHANGED <<genResult, actionResult, prev>>

\* A submit button that stays enabled while a request is loading.
SubmitButtonNeverDisabled == FALSE

\* <Button type="submit" disabled={isLoading}>
SubmitButtonDisabled == isLoading

\* The cap on simultaneous invocations of the handler.
MaxPending == 2

\* The form can be submitted: the button is enabled, and the request in
\* progress, if any, is the page's own.
CanSubmit ==
    /\ ~SubmitButtonDisabled
    /\ (pc = "idle" \/ caller \in {"form", "handler"})
    /\ pending < MaxPending

\* form.handleSubmit(onSubmit): the submit button is enabled only while
\* isLoading is false; onSubmit runs only when the resolver finds no error.
FormSubmit(v) ==
    /\ CanSubmit
    /\ formErrors' = FormErrors(v)
    /\ IF FormErrors(v) = {}
       THEN HandlerStart(v, "form")
       ELSE UNCHANGED <<engineVars, actionResult, isLoading, timetableData, toast, pending, prev>>

\* handleGenerateTimetable(values) called with any TimetableFormValues.
HandleGenerateTimetable(v) ==
    /\ pc = "idle"
    /\ HandlerStart(v, "handler")
    /\ UNCHANGED formErrors

\* generateTimetableAction(input) on the server calls generateTimetable.
ActionStart ==
    /\ pc = "awaitAction"
    /\ genResult' = GenerateSync(input)
    /\ pc' = IF GenerateSync(input) = NoResult THEN "awaitPrompt" ELSE "settled"
    /\ UNCHANGED <<caller, input, pageVars, prev>>

DataResult(o) == [kind |-> "data", data |-> o, error |-> ""]

ErrorResult(msg) == [kind |-> "error", data |-> NullOutput, error |-> msg]

RejectedResult == [kind |-> "rejected", data |-> NullOutput, error |-> ""]

\* The action hands the page {data} when generateTimetable returned and
\* {error} when it threw.
ActionReturns ==
    /\ pc = "settled"
    /\ caller \in {"form", "handler"}
    /\ actionResult' = IF genResult.kind = "returned"
                       THEN DataResult(genResult.output)
                       ELSE ErrorResult(genResult.error.msg)
    /\ genResult' = NoResult
    /\ pc' = "actionReturned"
    /\ UNCHANGED <<caller, input, isLoading, timetableData, toast, formErrors, pending, prev>>

\* The data reaches the page without one of its three fields.
ActionReturnsIncomplete(f) ==
    /\ pc = "settled"
    /\ caller \in {"form", "handler"}
    /\ genResult.kind = "returned"
    /\ actionResult' = DataResult(Without(genResult.output, f))
    /\ genResult' = NoResult
    /\ pc' = "actionReturned"
    /\ UNCHANGED <<caller, input, isLoading, timetableData, toast, formErrors, pending, prev>>

\* The awaited action call rejects.
ActionThrows ==
    /\ pc \in {"awaitAction", "settled"}
    /\ caller \in {"form", "handler"}
    /\ actionResult' = RejectedResult
    /\ genResult' = NoResult
    /\ pc' = "actionReturned"
    /\ UNCHANGED <<caller, input, isLoading, timetableData, toast, formErrors, pending, prev>>

\* DataAfter without the check of days, periods and schedule.
DataAfterUnchecked(r) ==
    IF r.kind = "data" THEN r.data ELSE NullOutput

\* What the try / catch leaves in timetableData for a result.
DataAfter(r) ==
    IF r.kind = "data" /\ r.data.has = Fields THEN r.data ELSE NullOutput

ToastAfter(r) ==
    CASE r.kind = "error" -> Toast("Error Generating Timetable", r.error)
      [] r.kind = "data" /\ r.data.has = Fields ->
            Toast("Timetable Generated", "Your timetable has been successfully generated.")
      [] r.kind = "data" /\ r.data.has # Fields ->
            Toast("Error Generating Timetable", InvalidStructureMsg)
      [] OTHER -> Toast("An Unexpected Error Occurred", "Please try again later.")

\* HandlerResume without the finally block: a rejected action leaves the
\* loading flag as it was.
HandlerResumeNoFinally ==
    /\ pc = "actionReturned"
    /\ timetableData' = DataAfter(actionResult)
    /\ toast' = ToastAfter(actionResult)
    /\ isLoading' = (actionResult.kind = "rejected" /\ isLoading)
    /\ actionResult' = NoActionResult
    /\ input' = NoInput
    /\ caller' = "none"
    /\ pc' = "idle"
    /\ pending' = pending - 1
    /\ UNCHANGED <<genResult, formErrors, prev>>

\* handleGenerateTimetable after the await: the branches on result, the
\* catch, and the finally.
HandlerResume ==
    /\ pc = "actionReturned"
    /\ timetableData' = DataAfter(actionResult)
    /\ toast' = ToastAfter(actionResult)
    /\ isLoading' = FALSE
    /\ actionResult' = NoActionResult
    /\ input' = NoInput
    /\ caller' = "none"
    /\ pc' = "idle"
    /\ pending' = pending - 1
    /\ UNCHANGED <<genResult, formErrors, prev>>

\* {timetableData && !isLoading && <TimetableDisplay .../>}
TimetableDisplayRendered == timetableData # NullOutput /\ ~isLoading

Next ==
    \/ CanSubmit /\ \E v \in FormValues : FormSubmit(v)
    \/ pc = "idle" /\ \E v \in FormValues : HandleGenerateTimetable(v)
    \/ pc = "idle" /\ \E i \in EntryInputs : GenerateTimetable(i)
    \/ ActionStart
    \/ pc = "awaitPrompt" /\ \E o \in SmallOutputs : PromptResolves(o)
    \/ PromptRejects
    \/ EntrySettles
    \/ ActionReturns
    \/ \E f \in Fields : ActionReturnsIncomplete(f)
    \/ ActionThrows
    \/ HandlerResume

\* The page, the form, the action and the generation entry point.
Spec == Init /\ [][Next]_vars

\* The page on its own: submissions and handler calls, and the steps of the
\* request they start.
PageProgress ==
    \/ ActionStart
    \/ pc = "awaitPrompt" /\ \E o \in SmallOutputs : PromptResolves(o)
    \/ PromptRejects
    \/ ActionReturns
    \/ \E f \in Fields : ActionReturnsIncomplete(f)
    \/ ActionThrows
    \/ HandlerResume

PageNext ==
    \/ CanSubmit /\ \E v \in FormValues : FormSubmit(v)
    \/ pc = "idle" /\ \E v \in FormValues : HandleGenerateTimetable(v)
    \/ PageProgress

\* The action call settles and the handler's continuation then runs: a
\* request that can take a step eventually takes one.
SpecLive == Init /\ [][PageNext]_vars /\ WF_vars(PageProgress)

\* ------------------------------------------------------- two invocations
\* generateTimetable invoked, settled, and invoked again with the same
\* input; prev keeps what the first invocation saw and returned.
FirstInvocation(i) ==
    /\ ~prev.set
    /\ GenerateTimetable(i)

SecondInvocation ==
    /\ prev.set
    /\ prev.current = NoAnswer
    /\ pc = "idle"
    /\ caller' = "entry"
    /\ input' = prev.input
    /\ genResult' = GenerateSync(prev.input)
    /\ pc' = IF GenerateSync(prev.input) = NoResult THEN "awaitPrompt" ELSE "settled"
    /\ prev' = [prev EXCEPT !.current = [kind |-> "started", output |-> NullOutput]]
    /\ UNCHANGED pageVars

PromptResolvesLogged(o) ==
    /\ pc = "awaitPrompt"
    /\ genResult' = FlowBody(o)
    /\ pc' = "settled"
    /\ prev' = [prev EXCEPT !.current = [kind |-> "resolved", output |-> o]]
    /\ UNCHANGED <<caller, input, pageVars>>

PromptRejectsLogged ==
    /\ pc = "awaitPrompt"
    /\ genResult' = Threw(Err(PromptFailedMsg, 0, 0))
    /\ pc' = "settled"
    /\ prev' = [prev EXCEPT !.current = [kind |-> "rejected", output |-> NullOutput]]
    /\ UNCHANGED <<caller, input, pageVars>>

FirstSettles ==
    /\ pc = "settled"
    /\ ~prev.set
    /\ prev' = [set |-> TRUE, input |-> input, answer |-> prev.current,
                result |-> genResult, current |-> NoAnswer]
    /\ pc' = "idle"
    /\ caller' = "none"
    /\ input' = NoInput
    /\ genResult' = NoResult
    /\ UNCHANGED pageVars

DetNext ==
    \/ pc = "idle" /\ \E i \in EntryInputs : FirstInvocation(i)
    \/ SecondInvocation
    \/ pc = "awaitPrompt" /\ \E o \in SmallOutputs : PromptResolvesLogged(o)
    \/ PromptRejectsLogged
    \/ FirstSettles

SpecDet == Init /\ [][DetNext]_vars

\* ------------------------------------------------------------------ claims
InFlight == pc \in {"awaitAction", "awaitPrompt", "settled", "actionReturned"}

ViaPage == caller \in {"form", "handler"}

WellShaped(o) ==
    /\ Len(o.schedule) = Len(o.periods)
    /\ \A k \in 1..Len(o.schedule) :
          o.schedule[k].isArray /\ Len(o.schedule[k].cells) = Len(o.days)

\* C1: generateTimetable settles by throwing or by returning a timetable
\* with as many schedule rows as periods and, in every row, as many cells
\* as days; an answer of another shape is never returned.
C1_ReturnedShape ==
    pc = "settled" =>
        \/ genResult.kind = "threw" /\ genResult.output = NullOutput
        \/ genResult.kind = "returned" /\ WellShaped(genResult.output)

\* A two-period, one-day timetable has been returned.
C1_Witness ==
    /\ pc = "settled"
    /\ genResult.kind = "returned"
    /\ Len(genResult.output.schedule) = 2
    /\ Len(genResult.output.days) = 1

\* C2: an input with different numbers of subjects and teacher counts never
\* reaches generateTimetableAction from handleGenerateTimetable, never
\* reaches the prompt, and makes generateTimetable throw the mismatch error.
C2_MismatchRejected ==
    /\ (InFlight /\ ViaPage) => Len(input.subjects) = Len(input.teachersPerSubject)
    /\ pc = "awaitPrompt" => Len(input.subjects) = Len(input.teachersPerSubject)
    /\ (pc = "settled" /\ Len(input.subjects) # Len(input.teachersPerSubject)) =>
          genResult.kind = "threw" /\ genResult.error.msg = MismatchMsg

\* The page has refused a mismatching input (its toast is still up) and a
\* direct call of generateTimetable with a mismatching input has thrown.
C2_Witness ==
    /\ toast = InputErrorToast
    /\ pc = "settled"
    /\ caller = "entry"
    /\ Len(input.subjects) # Len(input.teachersPerSubject)
    /\ genResult.kind = "threw"

ErrorTitles == {"Input Error", "Error Generating Timetable", "An Unexpected Error Occurred"}

\* C3: a generation that ends in an error carries no schedule: a throwing
\* generateTimetable returns none, an error or rejected action result holds
\* none, and once handleGenerateTimetable has raised an error toast
\* timetableData is null; timetableData is also null while the request runs.
C3_NoPartialState ==
    /\ genResult.kind = "threw" => genResult.output = NullOutput
    /\ actionResult.kind \in {"error", "rejected"} => actionResult.data = NullOutput
    /\ (InFlight /\ ViaPage) => timetableData = NullOutput
    /\ toast.title \in ErrorTitles => timetableData = NullOutput
    /\ timetableData # NullOutput => timetableData.has = Fields

\* handleGenerateTimetable has completed after the flow's validation threw.
C3_Witness ==
    /\ pc = "idle"
    /\ toast = Toast("Error Generating Timetable", MissingMsg)
    /\ timetableData = NullOutput
    /\ ~isLoading

\* C4: a returned timetable has exactly workingDays day names.
C4_DaysLength ==
    (pc = "settled" /\ genResult.kind = "returned") =>
        Len(genResult.output.days) = input.workingDays

\* C5: a request with workingDays < 1 never reaches the prompt and never
\* yields a timetable, and a request the form let through has
\* workingDays >= 1.
C5_ZeroWorkingDays ==
    /\ (InFlight /\ input.workingDays < 1) =>
          /\ pc # "awaitPrompt"
          /\ genResult.kind # "returned"
          /\ actionResult.kind # "data"
    /\ (InFlight /\ caller = "form") => input.workingDays >= 1

\* The form has flagged workingDays and a direct call of generateTimetable
\* with workingDays = 0 has been refused by the input schema.
C5_Witness ==
    /\ "workingDays" \in formErrors
    /\ pc = "settled"
    /\ input.workingDays = 0
    /\ genResult.kind = "threw"
    /\ genResult.error.msg = SchemaMsg

\* C6: no call with workingDays outside 1..7 or classesPerDay outside 1..12
\* returns a timetable.
C6_RangeRejected ==
    (pc = "settled" /\ genResult.kind = "returned") =>
        /\ input.workingDays \in 1..FormMaxWorkingDays
        /\ input.classesPerDay \in 1..FormMaxClassesPerDay

SecondSettled == prev.set /\ pc = "settled" /\ input = prev.input

IsClassCell(c) == c \in ClassCells

\* C8: in a returned schedule no two cells of one day column are classes of
\* the same subject and teacher.
C8_NoDoubleBooking ==
    (pc = "settled" /\ genResult.kind = "returned") =>
        LET o == genResult.output
        IN  \A d \in 1..Len(o.days) : \A p, q \in 1..Len(o.schedule) :
                (p # q /\ IsClassCell(o.schedule[p].cells[d]) /\ IsClassCell(o.schedule[q].cells[d]))
                => \/ CellSubject(o.schedule[p].cells[d]) # CellSubject(o.schedule[q].cells[d])
                   \/ CellTeacher(o.schedule[p].cells[d]) # CellTeacher(o.schedule[q].cells[d])

\* C9: a subject with a teacher count of 0 appears in no cell of a returned
\* schedule.
C9_CapacityLaw ==
    (pc = "settled" /\ genResult.kind = "returned") =>
        LET o == genResult.output
        IN  \A i \in 1..Len(input.subjects) :
                input.teachersPerSubject[i] = 0 =>
                    \A p \in 1..Len(o.schedule) : \A d \in 1..Len(o.days) :
                        CellSubject(o.schedule[p].cells[d]) # input.subjects[i]

\* C10: when the input asks for a break with label L at period index k, a
\* returned timetable has periods[k] = L and L in every cell of row k.
C10_BreakPlacement ==
    (pc = "settled" /\ genResult.kind = "returned" /\ input.otherConstraints.kind = "break") =>
        LET o == genResult.output
            k == input.otherConstraints.periodIndex + 1
            l == input.otherConstraints.label
        IN  /\ Len(o.periods) >= k
            /\ o.periods[k] = l
            /\ \A d \in 1..Len(o.days) : o.schedule[k].cells[d] = l

\* The number of cells of o's schedule that name subject s.
Occurrences(o, s) ==
    Cardinality({pd \in (1..Len(o.schedule)) \X (1..Len(o.days)) :
                    CellSubject(o.schedule[pd[1]].cells[pd[2]]) = s})

\* The target occurrence count of the k-th subject: the week's teaching
\* slots shared out evenly, the remainder going to the first subjects.
TargetCount(i, k) ==
    LET total == i.workingDays * i.classesPerDay
        n == Len(i.subjects)
    IN  (total \div n) + (IF k <= total % n THEN 1 ELSE 0)

\* C11: in a returned timetable every subject is assigned its target
\* occurrence count, give or take one.
C11_LoadBalanced ==
    (pc = "settled" /\ genResult.kind = "returned") =>
        \A k \in 1..Len(input.subjects) :
            LET c == Occurrences(genResult.output, input.subjects[k])
                t == TargetCount(input, k)
            IN  c - t \in -1..1

\* C12: no invocation of handleGenerateTimetable is left with isLoading
\* true once it has completed, and a loading flag that was set is
\* eventually reset.
C12_LoadingReset ==
    /\ [](pc = "idle" => ~isLoading)
    /\ (isLoading ~> ~isLoading)

\* The handler completed through its catch block.
C12_Witness ==
    /\ pc = "idle"
    /\ ~isLoading
    /\ toast.title = "An Unexpected Error Occurred"

\* C13: no stale timetable is shown. While a request of the page is in
\* progress timetableData is null, and after a request that ended in an
\* error toast no timetable is rendered; a step that starts a request
\* leaves timetableData null; and timetableData takes a new non-null value
\* only as the data of the current request's result that has days, periods
\* and schedule.
C13_NoStaleTimetable ==
    /\ []((InFlight /\ ViaPage) => (timetableData = NullOutput /\ ~TimetableDisplayRendered))
    /\ [](toast.title \in ErrorTitles => ~TimetableDisplayRendered)
    /\ [][(pc = "idle" /\ (pc' = "awaitAction" \/ toast' = InputErrorToast))
            => timetableData' = NullOutput]_vars
    /\ [][(timetableData' # NullOutput /\ timetableData' # timetableData)
            => /\ pc = "actionReturned"
               /\ ViaPage
               /\ actionResult.kind = "data"
               /\ actionResult.data.has = Fields
               /\ timetableData' = actionResult.data]_vars

\* A successful request's timetable is on display.
C13_Witness ==
    /\ TimetableDisplayRendered
    /\ pc = "idle"
    /\ toast.title = "Timetable Generated"

\* C14: at most one request of the page is in flight. No second invocation
\* of handleGenerateTimetable awaits the action beside the first, isLoading
\* is true exactly while one does, and isLoading falls only when that
\* invocation resumes after its await, whose input nothing has replaced.
C14_SingleInFlight ==
    /\ [](pending <= 1)
    /\ [](isLoading <=> pending = 1)
    /\ [](pending = 1 <=> (InFlight /\ ViaPage))
    /\ [][(isLoading /\ ~isLoading') => (pc = "actionReturned" /\ pending = 1)]_vars
    /\ [][(isLoading /\ isLoading') => (input' = input /\ timetableData' = timetableData)]_vars

\* A submitted request is waiting for the model's answer.
C14_Witness ==
    /\ pending = 1
    /\ isLoading
    /\ caller = "form"
    /\ pc = "awaitPrompt"

====
